---- MODULE Spec2Model ----
(***************************************************************************)
(* A model of kent_distribution.py: the Kent (FB5) distribution on the     *)
(* sphere.  Four parts, each with its own specification over the shared    *)
(* variables:                                                              *)
(*   SpecSampler  rvs / level and the two per-instance caches              *)
(*   SpecFrame    the four constructors and the angle <-> axes conversions *)
(*   SpecNorm     normalize / log_normalize and the shared memo cache      *)
(*   SpecMle      kent_mle's handling of the solver's outcome              *)
(***************************************************************************)
EXTENDS Integers, Sequences, FiniteSets, TLC

VARIABLES
  cached_rvs,      \* KentDistribution._cached_rvs: accepted, not yet returned samples
  level_log_pdf,   \* KentDistribution._level_log_pdf: sorted -log_pdf values
  accepted,        \* history: every sample _rvs_helper accepted, in generation order
  returned,        \* history: every sample rvs handed out, in order
  last,            \* the last rvs/level call: arguments, result, the state before it
  call,            \* the last constructor call: its name and arguments
  inst,            \* what that constructor call yielded: [raised, k]
  query,           \* the last density query on inst.k: its name, point and value
  cache,           \* normalize's default argument cache=dict(): one dict per process
  computed,        \* history: how often cache[k, b] was assigned, per pair
  ncall,           \* the last normalize/log_normalize call: arguments, result, state before
  mle,             \* the last kent_mle call: arguments, the solver's result, what it returned
  warned,          \* the messages passed to warnings.warn, in order
  sink,            \* what was written to the object passed as warning, in order
  mle_calls        \* the number of kent_mle calls made

sampler_vars == <<cached_rvs, level_log_pdf, accepted, returned, last>>
frame_vars == <<call, inst>>
norm_vars == <<cache, computed, ncall>>
mle_vars == <<mle, warned, sink, mle_calls>>
vars == <<cached_rvs, level_log_pdf, accepted, returned, last, call, inst, query,
          cache, computed, ncall, mle, warned, sink, mle_calls>>

\* what the actions of one part leave alone
outside_sampler == <<call, inst, query, norm_vars, mle_vars>>
outside_frame == <<sampler_vars, query, norm_vars, mle_vars>>
outside_pdf == <<sampler_vars, call, inst, norm_vars, mle_vars>>
outside_norm == <<sampler_vars, call, inst, query, mle_vars>>
outside_mle == <<sampler_vars, call, inst, query, norm_vars>>

(***************************************************************************)
(* Small helpers.                                                          *)
(***************************************************************************)
RECURSIVE SumSeq(_)
SumSeq(s) == IF s = <<>> THEN 0 ELSE Head(s) + SumSeq(Tail(s))

Prefix(s, n) == SubSeq(s, 1, IF n < Len(s) THEN n ELSE Len(s))

\* Python's s[n:] for n >= 0
Drop(s, n) == SubSeq(s, (IF n < Len(s) THEN n ELSE Len(s)) + 1, Len(s))

(***************************************************************************)
(* Bounds of the sampler model.                                            *)
(***************************************************************************)
MaxAccepted == 4   \* samples accepted over a whole run
MaxBatch == 2      \* accepted samples in one _rvs_helper batch
MaxHelperCalls == 2 \* _rvs_helper calls inside one rvs call
MaxN == 3          \* largest n_samples asked for

\* n_samples == None is <<>>, n_samples == n is <<n>>
None == <<>>
NSamplesArgs == {None} \cup {<<n>> : n \in 0..MaxN}

\* percentiles tried: inside [0, 100) and outside it on both sides
Percentiles == {-5, 0, 50, 75, 100}

\* the values -log_pdf(x) the samples take
NlpValues == {1, 2}

\* A sample is [id, nlp]: id is its place in the generation order, nlp the
\* value -log_pdf(x) of the point (the model carries the value, not the point).
Sample(i, v) == [id |-> i, nlp |-> v]

(***************************************************************************)
(* _rvs_helper (lines 322-329): one batch of candidates; what it returns   *)
(* is the sequence of the accepted ones, in generation order.  The batches *)
(* of one rvs call are built from their sizes and the samples' values.     *)
(***************************************************************************)
RECURSIVE rvs_helper_batches(_, _, _)
rvs_helper_batches(sizes, start, vals) ==
  IF sizes = <<>> THEN <<>>
  ELSE <<[i \in 1..Head(sizes) |-> Sample(start + i, vals[start + i])]>>
       \o rvs_helper_batches(Tail(sizes), start + Head(sizes), vals)

BatchSizes ==
  UNION {[1..k -> 0..MaxBatch] : k \in 0..MaxHelperCalls}

(***************************************************************************)
(* rvs (lines 331-351).  rvs_loop is the while loop of lines 342-344: it   *)
(* returns the accumulated samples and the batches it did not ask for.     *)
(***************************************************************************)
RECURSIVE rvs_loop(_, _, _)
rvs_loop(rvs, num_samples, batches) ==
  IF Len(rvs) < num_samples /\ batches # <<>>
  THEN rvs_loop(rvs \o Head(batches), num_samples, Tail(batches))
  ELSE [rvs |-> rvs, rest |-> batches]

rvs_num_samples(n_samples) == IF n_samples = None THEN 1 ELSE n_samples[1]

\* the loop ends having called _rvs_helper exactly once per given batch
rvs_terminates(cached, n_samples, batches) ==
  LET r == rvs_loop(cached, rvs_num_samples(n_samples), batches)
  IN  r.rest = <<>> /\ Len(r.rvs) >= rvs_num_samples(n_samples)

\* a slip in the slice that keeps the surplus: rvs[num_samples+1:]
rvs_cache_off_by_one(rvs, n_samples) ==
  Drop(rvs, rvs_num_samples(n_samples) + 1)

\* lines 345-351: the new cache
rvs_cache(rvs, n_samples) ==
  IF n_samples = None THEN Drop(rvs, 1) ELSE Drop(rvs, n_samples[1])

\* lines 345-351: what is handed out, as a sequence (rvs() hands out one sample)
rvs_retval(rvs, n_samples) ==
  IF n_samples = None THEN Prefix(rvs, 1) ELSE Prefix(rvs, n_samples[1])

rvs(cached, n_samples, batches) ==
  LET r == rvs_loop(cached, rvs_num_samples(n_samples), batches).rvs
  IN  [retval |-> rvs_retval(r, n_samples), cached |-> rvs_cache(r, n_samples)]

RECURSIVE Flatten(_)
Flatten(ss) == IF ss = <<>> THEN <<>> ELSE Head(ss) \o Flatten(Tail(ss))

(***************************************************************************)
(* level (lines 353-369).                                                   *)
(***************************************************************************)
\* -self.log_pdf(new_rvs), line 361
neg_log_pdf(xs) == [i \in 1..Len(xs) |-> xs[i].nlp]

\* the range test with its upper end included
level_in_range_closed(percentile) == 0 <= percentile /\ percentile <= 100

\* line 357
level_in_range(percentile) == 0 <= percentile /\ percentile < 100

\* the cache-size test redrawing also when the cache is exactly large enough
level_redraws_on_equal(curr_len, n_samples) == curr_len <= n_samples

\* line 359
level_redraws(curr_len, n_samples) == curr_len < n_samples

\* line 362
level_sort(s) == SortSeq(s, LAMBDA a, b : a < b)

\* lines 363-366 on the cache log_pdf; values are in hundredths, so that
\* loc = (size-1)*percentile/100. and frac are exact.  Indexing past the end
\* of the array is Python's IndexError.
level_interpolate(log_pdf, percentile) ==
  LET loc100 == (Len(log_pdf) - 1) * percentile
      \* int(loc) truncates toward zero
      idx    == IF loc100 >= 0 THEN loc100 \div 100 ELSE -((-loc100) \div 100)
      frac100 == loc100 - 100 * idx
  IN  IF idx + 1 > Len(log_pdf) \/ idx + 2 > Len(log_pdf)
      THEN [kind |-> "IndexError", v |-> 0]
      ELSE [kind |-> "value",
            v |-> 100 * log_pdf[idx + 1]
                  + frac100 * (log_pdf[idx + 2] - log_pdf[idx + 1])]

NanResult == [kind |-> "nan", v |-> 0]

NoCall ==
  [op |-> "none", n_samples |-> None, percentile |-> 0, ret |-> <<>>,
   level_ret |-> NanResult, printed |-> FALSE, fresh |-> <<>>,
   pre_cached |-> <<>>, pre_level |-> <<>>]

InitSampler ==
  /\ cached_rvs = <<>>        \* lines 165-166
  /\ level_log_pdf = <<>>     \* line 169
  /\ accepted = <<>>
  /\ returned = <<>>
  /\ last = NoCall

\* the samples one call may generate: batch sizes and the values of the samples
NewBatches(sizes, vals) == rvs_helper_batches(sizes, Len(accepted), vals)

Rvs(n_samples) ==
  \E sizes \in BatchSizes :
    /\ Len(accepted) + SumSeq(sizes) <= MaxAccepted
    /\ \E vals \in [Len(accepted) + 1 .. Len(accepted) + SumSeq(sizes) -> NlpValues] :
         LET batches == NewBatches(sizes, vals)
             r == rvs(cached_rvs, n_samples, batches)
         IN  /\ rvs_terminates(cached_rvs, n_samples, batches)
             /\ cached_rvs' = r.cached
             /\ accepted' = accepted \o Flatten(batches)
             /\ returned' = returned \o r.retval
             /\ last' = [NoCall EXCEPT !.op = "rvs", !.n_samples = n_samples,
                           !.ret = r.retval, !.fresh = Flatten(batches),
                           !.pre_cached = cached_rvs, !.pre_level = level_log_pdf]
             /\ UNCHANGED <<level_log_pdf, outside_sampler>>

\* level with a percentile in range and a cache that is too small: lines 360-366
LevelRedraw(percentile, n) ==
  /\ level_in_range(percentile)
  /\ level_redraws(Len(level_log_pdf), n)
  /\ \E sizes \in BatchSizes :
       /\ Len(accepted) + SumSeq(sizes) <= MaxAccepted
       /\ \E vals \in [Len(accepted) + 1 .. Len(accepted) + SumSeq(sizes) -> NlpValues] :
            LET batches == NewBatches(sizes, vals)
                r == rvs(cached_rvs, <<n>>, batches)
                log_pdf == level_sort(neg_log_pdf(r.retval))
            IN  /\ rvs_terminates(cached_rvs, <<n>>, batches)
                /\ cached_rvs' = r.cached
                /\ accepted' = accepted \o Flatten(batches)
                /\ returned' = returned \o r.retval
                /\ level_log_pdf' = log_pdf
                /\ last' = [NoCall EXCEPT !.op = "level", !.n_samples = <<n>>,
                              !.percentile = percentile, !.ret = r.retval,
                              !.level_ret = level_interpolate(log_pdf, percentile),
                              !.fresh = Flatten(batches),
                              !.pre_cached = cached_rvs, !.pre_level = level_log_pdf]
                /\ UNCHANGED outside_sampler

\* level with a percentile in range and a cache that is large enough: lines 363-366
LevelReuse(percentile, n) ==
  /\ level_in_range(percentile)
  /\ ~level_redraws(Len(level_log_pdf), n)
  /\ last' = [NoCall EXCEPT !.op = "level", !.n_samples = <<n>>,
                !.percentile = percentile,
                !.level_ret = level_interpolate(level_log_pdf, percentile),
                !.pre_cached = cached_rvs, !.pre_level = level_log_pdf]
  /\ UNCHANGED <<cached_rvs, level_log_pdf, accepted, returned, outside_sampler>>

\* level with a percentile out of range: lines 367-369
LevelOutOfBounds(percentile, n) ==
  /\ ~level_in_range(percentile)
  /\ last' = [NoCall EXCEPT !.op = "level", !.n_samples = <<n>>,
                !.percentile = percentile, !.level_ret = NanResult, !.printed = TRUE,
                !.pre_cached = cached_rvs, !.pre_level = level_log_pdf]
  /\ UNCHANGED <<cached_rvs, level_log_pdf, accepted, returned, outside_sampler>>

NextSampler ==
  \/ \E n_samples \in NSamplesArgs : Rvs(n_samples)
  \/ \E p \in Percentiles, n \in 0..MaxN : LevelRedraw(p, n)
  \/ \E p \in Percentiles, n \in 0..MaxN : LevelReuse(p, n)
  \/ \E p \in Percentiles, n \in 0..MaxN : LevelOutOfBounds(p, n)


(***************************************************************************)
(* Claims about the sampler and the percentile cache.                      *)
(***************************************************************************)
IsSorted(s) == \A i \in 1..(Len(s) - 1) : s[i] <= s[i + 1]

\* C1: rvs(n), n >= 0, returns exactly n samples from the front of (cached
\* samples, then the newly accepted ones in generation order) and keeps exactly
\* the rest in the cache; rvs() returns one sample and removes only that one.
\* So at any time the samples handed out so far followed by the cached ones
\* are all the accepted samples, each once and in order: none is handed out
\* twice, none is dropped.
C1_RvsReturnsExactlyN ==
  /\ returned \o cached_rvs = accepted
  /\ \A i \in 1..Len(accepted) : accepted[i].id = i
  /\ last.op = "rvs" =>
       /\ Len(last.ret) = (IF last.n_samples = None THEN 1 ELSE last.n_samples[1])
       /\ last.ret \o cached_rvs = last.pre_cached \o last.fresh

\* an rvs(n) call served partly from the cache and partly from new samples,
\* with a surplus left in the cache
C1_Witness ==
  /\ last.op = "rvs"
  /\ last.n_samples = <<2>>
  /\ Len(last.pre_cached) = 1
  /\ last.fresh # <<>>
  /\ cached_rvs # <<>>

\* C2: for a percentile in [0, 100), level draws samples and replaces the
\* percentile cache iff n_samples exceeds the cache's size, and then the cache
\* holds exactly n_samples values, sorted, the -log_pdf of the samples drawn;
\* otherwise both caches are left as they were.  A level call repeated with the
\* same percentile and n_samples changes nothing and gives the same result.
C2_LevelCacheState ==
  (last.op = "level" /\ 0 <= last.percentile /\ last.percentile < 100) =>
    LET n == last.n_samples[1]
    IN  /\ (last.ret # <<>>) <=> (n > Len(last.pre_level))
        /\ (n > Len(last.pre_level)) =>
             /\ Len(level_log_pdf) = n
             /\ IsSorted(level_log_pdf)
             /\ Len(last.ret) = n
             /\ \A v \in NlpValues :
                  Cardinality({i \in 1..n : level_log_pdf[i] = v})
                    = Cardinality({i \in 1..n : last.ret[i].nlp = v})
        /\ ~(n > Len(last.pre_level)) =>
             /\ level_log_pdf = last.pre_level
             /\ cached_rvs = last.pre_cached

C2_LevelRepeatable ==
  (/\ last.op = "level" /\ last'.op = "level"
   /\ 0 <= last.percentile /\ last.percentile < 100
   /\ last'.percentile = last.percentile
   /\ last'.n_samples = last.n_samples)
  => /\ last'.level_ret = last.level_ret
     /\ level_log_pdf' = level_log_pdf
     /\ cached_rvs' = cached_rvs

C2_LevelIdempotent == [](C2_LevelCacheState) /\ [][C2_LevelRepeatable]_vars

\* a level call that redrew because the cache was smaller than n_samples,
\* with a non-empty cache before it
C2_Witness ==
  /\ last.op = "level"
  /\ last.percentile = 50
  /\ last.pre_level # <<>>
  /\ Len(level_log_pdf) > Len(last.pre_level)
  /\ last.level_ret.kind = "value"

\* C3: level with a percentile outside [0, 100) raises nothing, returns the
\* not-a-number sentinel and leaves both caches as they were.
C3_LevelOutOfRange ==
  (last.op = "level" /\ (last.percentile < 0 \/ last.percentile >= 100)) =>
    /\ last.level_ret = NanResult
    /\ last.printed
    /\ last.ret = <<>>
    /\ cached_rvs = last.pre_cached
    /\ level_log_pdf = last.pre_level

\* level(100, n) on an instance whose two caches are both non-empty
C3_Witness ==
  /\ last.op = "level"
  /\ last.percentile = 100
  /\ last.level_ret = NanResult
  /\ cached_rvs # <<>>
  /\ level_log_pdf # <<>>

(***************************************************************************)
(* Exact arithmetic for the geometry.  A number is a fraction <<n, d>> in  *)
(* lowest terms with d > 0, or the float not-a-number, written <<0, 0>>.   *)
(* Every operation propagates not-a-number as IEEE arithmetic does, and    *)
(* every comparison with it is false.                                      *)
(***************************************************************************)
\* F applied to the value of v, with v evaluated once
Eval(v, F(_)) == CHOOSE r \in {F(x) : x \in {v}} : TRUE

RECURSIVE Gcd(_, _)
Gcd(a, b) == IF b = 0 THEN a ELSE Gcd(b, a % b)

IAbs(n) == IF n < 0 THEN -n ELSE n

nan == <<0, 0>>
IsNan(x) == x[2] = 0

\* n/d in lowest terms; 0/0 is not-a-number (numpy: a RuntimeWarning, no exception)
Frac(n, d) ==
  IF d = 0 THEN nan
  ELSE LET g == Gcd(IAbs(n), IAbs(d))
           sg == IF d < 0 THEN -1 ELSE 1
       IN  <<sg * (n \div g), IAbs(d) \div g>>

Num(n) == <<n, 1>>
Zero == Num(0)
One == Num(1)

\* the arithmetic reduces before it multiplies, to keep the integers small
Lcm(a, b) == (a \div Gcd(a, b)) * b

FAdd(x, y) == IF IsNan(x) \/ IsNan(y) THEN nan
              ELSE LET d == Lcm(x[2], y[2])
                   IN  Frac(x[1] * (d \div x[2]) + y[1] * (d \div y[2]), d)
FNeg(x) == IF IsNan(x) THEN nan ELSE <<-x[1], x[2]>>
FSub(x, y) == FAdd(x, FNeg(y))
FMul(x, y) == IF IsNan(x) \/ IsNan(y) THEN nan
              ELSE LET g1 == Gcd(IAbs(x[1]), y[2])
                       g2 == Gcd(IAbs(y[1]), x[2])
                   IN  Frac((x[1] \div g1) * (y[1] \div g2),
                            (x[2] \div g2) * (y[2] \div g1))
\* x / y; 0/0 is not-a-number, and the model divides by zero only so
FDiv(x, y) == IF IsNan(x) \/ IsNan(y) \/ y[1] = 0 THEN nan
              ELSE FMul(x, IF y[1] < 0 THEN <<-y[2], -y[1]>> ELSE <<y[2], y[1]>>)
FAbs(x) == IF IsNan(x) THEN nan ELSE <<IAbs(x[1]), x[2]>>
FLt(x, y) == /\ ~IsNan(x) /\ ~IsNan(y)
             /\ LET d == Lcm(x[2], y[2])
                IN  x[1] * (d \div x[2]) < y[1] * (d \div y[2])
FLe(x, y) == /\ ~IsNan(x) /\ ~IsNan(y)
             /\ LET d == Lcm(x[2], y[2])
                IN  x[1] * (d \div x[2]) <= y[1] * (d \div y[2])
FEq(x, y) == ~IsNan(x) /\ ~IsNan(y) /\ x = y

\* the exact root of a perfect square (the inputs of the model are chosen so
\* that every root taken is rational)
RECURSIVE NewtonSqrt(_, _)
NewtonSqrt(n, x) ==
  LET y == (x + n \div x) \div 2
  IN  IF y >= x THEN x ELSE NewtonSqrt(n, y)
FloorSqrt(n) == IF n < 2 THEN n ELSE NewtonSqrt(n, n)
IsSquare(n) == FloorSqrt(n) * FloorSqrt(n) = n
ISqrt(n) == CHOOSE r \in {FloorSqrt(n)} : r * r = n
FSqrt(x) == IF IsNan(x) \/ x[1] < 0 THEN nan ELSE <<ISqrt(x[1]), ISqrt(x[2])>>

\* |x| < 10^(-digits), without leaving the integers
RECURSIVE BelowPow10(_, _, _)
BelowPow10(n, d, digits) ==
  IF n >= d THEN FALSE
  ELSE IF digits = 0 THEN TRUE
  ELSE BelowPow10(10 * n, d, digits - 1)

(***************************************************************************)
(* Vectors are triples of numbers, matrices triples of rows.               *)
(***************************************************************************)
Vec(a, b, c) == <<a, b, c>>
VecHasNan(v) == \E i \in 1..3 : IsNan(v[i])
VScale(v, k) == [i \in 1..3 |-> FMul(v[i], k)]
VDiv(v, k) == [i \in 1..3 |-> FDiv(v[i], k)]

\* numpy inner(a, b) of two vectors
inner(a, b) == FAdd(FAdd(FMul(a[1], b[1]), FMul(a[2], b[2])), FMul(a[3], b[3]))

\* numpy cross(a, b)
cross(a, b) ==
  Vec(FSub(FMul(a[2], b[3]), FMul(a[3], b[2])),
      FSub(FMul(a[3], b[1]), FMul(a[1], b[3])),
      FSub(FMul(a[1], b[2]), FMul(a[2], b[1])))

transpose(M) == [i \in 1..3 |-> [j \in 1..3 |-> M[j][i]]]

\* Gamma[:, j]
Column(M, j) == [i \in 1..3 |-> M[i][j]]

\* lines 28-29: MMul(A, B) = inner(A, transpose(B)); numpy's inner of two
\* matrices pairs the rows of the first with the rows of the second
MMul(A, B) ==
  Eval(transpose(B), LAMBDA Bt :
    [i \in 1..3 |-> [j \in 1..3 |-> inner(A[i], Bt[j])]])

\* MMul(Ht, reshape(gamma2, (3, 1))): a matrix times a column vector
MMulVec(A, v) == [i \in 1..3 |-> inner(A[i], v)]

\* lines 32-35: sqrt(sum(x*x))
norm(x) == FSqrt(inner(x, x))

(***************************************************************************)
(* Angles.  The code uses an angle only through its cosine and sine, so an *)
(* angle is the point [c, s] of the unit circle it names; the angles of    *)
(* the model are those whose cosine and sine are rational.  arccos and     *)
(* arctan2 are numpy's: arccos yields an angle in [0, pi] (sine >= 0) and  *)
(* not-a-number outside [-1, 1]; arctan2(0, 0) is 0.                       *)
(***************************************************************************)
Angle(c, s) == [c |-> c, s |-> s]
nan_angle == Angle(nan, nan)
cos(a) == a.c
sin(a) == a.s

arccos(x) ==
  IF IsNan(x) \/ FLt(One, FAbs(x)) THEN nan_angle
  ELSE Angle(x, FSqrt(FSub(One, FMul(x, x))))

arctan2(y, x) ==
  IF IsNan(x) \/ IsNan(y) THEN nan_angle
  ELSE IF x = Zero /\ y = Zero THEN Angle(One, Zero)
  ELSE LET h == FSqrt(FAdd(FMul(x, x), FMul(y, y)))
       IN  Angle(FDiv(x, h), FDiv(y, h))

\* lines 97-102
create_matrix_H(theta, phi) ==
  << <<cos(theta), FNeg(sin(theta)), Zero>>,
     <<FMul(sin(theta), cos(phi)), FMul(cos(theta), cos(phi)), FNeg(sin(phi))>>,
     <<FMul(sin(theta), sin(phi)), FMul(cos(theta), sin(phi)), cos(phi)>> >>

\* lines 105-106
create_matrix_Ht(theta, phi) == transpose(create_matrix_H(theta, phi))

\* lines 109-114
create_matrix_K(psi) ==
  << <<One, Zero, Zero>>,
     <<Zero, cos(psi), FNeg(sin(psi))>>,
     <<Zero, sin(psi), cos(psi)>> >>

\* lines 121-124
create_matrix_Gamma(theta, phi, psi) ==
  MMul(create_matrix_H(theta, phi), create_matrix_K(psi))

\* lines 131-136: the three columns of Gamma
spherical_coordinates_to_gammas(theta, phi, psi) ==
  Eval(create_matrix_Gamma(theta, phi, psi), LAMBDA G :
    <<Column(G, 1), Column(G, 2), Column(G, 3)>>)

\* lines 139-142: <<theta, phi>>
gamma1_to_spherical_coordinates(gamma1) ==
  <<arccos(gamma1[1]), arctan2(gamma1[3], gamma1[2])>>

\* a slip in line 149: the two arguments of arctan2 exchanged
gammas_to_spherical_coordinates_swapped(gamma1, gamma2) ==
  Eval(gamma1_to_spherical_coordinates(gamma1), LAMBDA tp :
  Eval(MMulVec(create_matrix_Ht(tp[1], tp[2]), gamma2), LAMBDA u :
    <<tp[1], tp[2], arctan2(u[2], u[3])>>))

\* lines 145-150: <<theta, phi, psi>>
gammas_to_spherical_coordinates(gamma1, gamma2) ==
  Eval(gamma1_to_spherical_coordinates(gamma1), LAMBDA tp :
  Eval(MMulVec(create_matrix_Ht(tp[1], tp[2]), gamma2), LAMBDA u :
    <<tp[1], tp[2], arctan2(u[3], u[2])>>))

(***************************************************************************)
(* The distribution and its four constructors.  A constructor yields       *)
(* [raised, k]: raised names the exception ("" when none), k the instance. *)
(***************************************************************************)
\* lines 153-169 (the two caches start empty: InitSampler)
KentDistribution(gamma1, gamma2, gamma3, kappa, beta) ==
  Eval(gammas_to_spherical_coordinates(gamma1, gamma2), LAMBDA a :
    [gamma1 |-> gamma1, gamma2 |-> gamma2, gamma3 |-> gamma3,
     kappa |-> kappa, beta |-> beta,
     theta |-> a[1], phi |-> a[2], psi |-> a[3]])

\* lines 171-173: the property Gamma
Gamma(k) == create_matrix_Gamma(k.theta, k.phi, k.psi)

NoInstance == KentDistribution(Vec(Zero, Zero, Zero), Vec(Zero, Zero, Zero),
                               Vec(Zero, Zero, Zero), Zero, Zero)
Returned(k) == [raised |-> "", k |-> k]
Raised(e) == [raised |-> e, k |-> NoInstance]

\* lines 37-44
kent(theta, phi, psi, kappa, beta) ==
  Eval(spherical_coordinates_to_gammas(theta, phi, psi), LAMBDA g :
    Returned(KentDistribution(g[1], g[2], g[3], kappa, beta)))

\* the tolerance 1E-10 of lines 51-53, as its number of decimal places
OrthTolDigits == 10

\* abs(x) < 1E-10; false for not-a-number
assert_orthogonal(x) ==
  ~IsNan(x) /\ BelowPow10(IAbs(x[1]), x[2], OrthTolDigits)

\* lines 46-54
kent2(gamma1, gamma2, gamma3, kappa, beta) ==
  IF /\ assert_orthogonal(inner(gamma1, gamma2))
     /\ assert_orthogonal(inner(gamma2, gamma3))
     /\ assert_orthogonal(inner(gamma3, gamma1))
  THEN Returned(KentDistribution(gamma1, gamma2, gamma3, kappa, beta))
  ELSE Raised("AssertionError")

\* argmax of three norms, from their squares (the order is the same): the
\* first index holding the largest value, not-a-number counting as largest
argmax3(sq) ==
  IF \E i \in 1..3 : IsNan(sq[i])
  THEN CHOOSE i \in 1..3 : IsNan(sq[i]) /\ \A j \in 1..(i - 1) : ~IsNan(sq[j])
  ELSE CHOOSE i \in 1..3 :
         /\ \A j \in 1..3 : FLe(sq[j], sq[i])
         /\ \A j \in 1..(i - 1) : FLt(sq[j], sq[i])

\* lines 84-92
generate_arbitrary_orthogonal_unit_vector(x) ==
  Eval(<<cross(x, Vec(One, Zero, Zero)),
         cross(x, Vec(Zero, One, Zero)),
         cross(x, Vec(Zero, Zero, One))>>, LAMBDA vs :
  Eval(vs[argmax3([i \in 1..3 |-> inner(vs[i], vs[i])])], LAMBDA v :
    VDiv(v, norm(v))))

\* lines 64-70: gamma1 and gamma2 as kent3 derives them from A and B
kent3_axes(A, B) ==
  Eval(norm(A), LAMBDA kappa :
  Eval(norm(B), LAMBDA beta :
  Eval(VDiv(A, kappa), LAMBDA gamma1 :
    <<gamma1,
      IF beta = Zero
      THEN generate_arbitrary_orthogonal_unit_vector(gamma1)
      ELSE VDiv(B, beta)>>)))

\* lines 56-73
kent3(A, B) ==
  Eval(kent3_axes(A, B), LAMBDA ax :
  Eval(gammas_to_spherical_coordinates(ax[1], ax[2]), LAMBDA a :
  Eval(spherical_coordinates_to_gammas(a[1], a[2], a[3]), LAMBDA g :
    Returned(KentDistribution(g[1], g[2], g[3], norm(A), norm(B))))))

\* lines 75-82
kent4(M, kappa, beta) ==
  kent2(Column(M, 1), Column(M, 2), Column(M, 3), kappa, beta)

(***************************************************************************)
(* The constructor calls of the model.                                     *)
(***************************************************************************)
\* the angles with rational cosine and sine of denominator 5; the first four
\* are 0, pi/2, pi (also -pi) and -pi/2
Angles ==
  {Angle(Num(c), Num(s)) :
     <<c, s>> \in {<<1, 0>>, <<0, 1>>, <<-1, 0>>, <<0, -1>>}}
  \cup
  {Angle(Frac(c, 5), Frac(s, 5)) :
     <<c, s>> \in {<<3, 4>>, <<-3, 4>>, <<-3, -4>>, <<3, -4>>}}

\* kappa and beta as the callers pass them
Kappas == {Num(0), Num(1), Num(2)}
Betas == {Num(0), Num(1), Num(3)}

ZeroVec == Vec(Zero, Zero, Zero)
FIsSquare(x) == IsNan(x) \/ (x[1] >= 0 /\ IsSquare(x[1]) /\ IsSquare(x[2]))

\* every root kent3(A, B) takes is rational
kent3_exact(A, B) ==
  /\ FIsSquare(inner(A, A))
  /\ FIsSquare(inner(B, B))
  /\ (inner(B, B) = Zero) =>
       \E x \in {VDiv(A, norm(A))} :
       \E sq \in {[i \in 1..3 |->
                     Eval(cross(x, [j \in 1..3 |-> IF j = i THEN One ELSE Zero]),
                          LAMBDA v : inner(v, v))]} :
         FIsSquare(sq[argmax3(sq)])
  /\ \E ax \in {kent3_axes(A, B)} :
       /\ FIsSquare(FSub(One, FMul(ax[1][1], ax[1][1])))
       /\ FIsSquare(FAdd(FMul(ax[1][2], ax[1][2]), FMul(ax[1][3], ax[1][3])))
       /\ \E tp \in {gamma1_to_spherical_coordinates(ax[1])} :
          \E u \in {MMulVec(create_matrix_Ht(tp[1], tp[2]), ax[2])} :
            FIsSquare(FAdd(FMul(u[2], u[2]), FMul(u[3], u[3])))

NoCtorCall ==
  [op |-> "none", angles |-> <<>>, vectors |-> <<>>, kappa |-> Zero, beta |-> Zero]

\* The constructors are pure: the initial states draw the angles, kappa and
\* beta a call is built from, and one constructor is then applied to them.
InitFrame ==
  /\ \E theta \in Angles, phi \in Angles, psi \in Angles,
        kappa \in Kappas, beta \in Betas :
       call = [NoCtorCall EXCEPT !.angles = <<theta, phi, psi>>,
                 !.kappa = kappa, !.beta = beta]
  /\ inst = Raised("")

\* with the sampler running, one instance and no constructor call
IdleFrame ==
  /\ call = NoCtorCall
  /\ inst = Raised("")

Kent ==
  /\ call.op = "none"
  /\ call' = [call EXCEPT !.op = "kent"]
  /\ inst' = kent(call.angles[1], call.angles[2], call.angles[3],
                  call.kappa, call.beta)
  /\ UNCHANGED outside_frame

\* the triples handed to kent2 and kent4: the axes of a frame, and the same
\* axes with the third one reversed, the first one doubled, the second one
\* replaced by the first
Triples(theta, phi, psi) ==
  Eval(spherical_coordinates_to_gammas(theta, phi, psi), LAMBDA g :
    {g,
     <<g[1], g[2], VScale(g[3], Num(-1))>>,
     <<VScale(g[1], Num(2)), g[2], g[3]>>,
     <<g[1], g[1], g[3]>>})

Kent2(gamma1, gamma2, gamma3) ==
  /\ call.op = "none"
  /\ FIsSquare(FSub(One, FMul(gamma1[1], gamma1[1])))
  /\ call' = [call EXCEPT !.op = "kent2", !.vectors = <<gamma1, gamma2, gamma3>>]
  /\ inst' = kent2(gamma1, gamma2, gamma3, call.kappa, call.beta)
  /\ UNCHANGED outside_frame

Kent3(A, B) ==
  /\ call.op = "none"
  /\ kent3_exact(A, B)
  /\ call' = [call EXCEPT !.op = "kent3", !.vectors = <<A, B>>]
  /\ inst' = kent3(A, B)
  /\ UNCHANGED outside_frame

Kent4(M) ==
  /\ call.op = "none"
  /\ FIsSquare(FSub(One, FMul(M[1][1], M[1][1])))
  /\ call' = [call EXCEPT !.op = "kent4",
                !.vectors = <<Column(M, 1), Column(M, 2), Column(M, 3)>>]
  /\ inst' = kent4(M, call.kappa, call.beta)
  /\ UNCHANGED outside_frame

CallTriples == Triples(call.angles[1], call.angles[2], call.angles[3])
CallAxes ==
  spherical_coordinates_to_gammas(call.angles[1], call.angles[2], call.angles[3])

NextFrame ==
  \/ Kent
  \/ \E g \in CallTriples : Kent2(g[1], g[2], g[3])
  \/ \E g \in {CallAxes} :
       \E A \in {VScale(g[1], call.kappa)},
          B \in {VScale(g[2], call.beta), VScale(g[1], call.beta)} : Kent3(A, B)
  \/ \E g \in CallTriples : \E M \in {transpose(<<g[1], g[2], g[3]>>)} : Kent4(M)

(***************************************************************************)
(* Claims about the constructors and the frame.                            *)
(***************************************************************************)
IsCtorCall == call.op \in {"kent", "kent2", "kent3", "kent4"}

\* three axes, pairwise orthogonal and of unit length
Orthonormal(g1, g2, g3) ==
  /\ FEq(inner(g1, g2), Zero) /\ FEq(inner(g2, g3), Zero) /\ FEq(inner(g3, g1), Zero)
  /\ FEq(inner(g1, g1), One) /\ FEq(inner(g2, g2), One) /\ FEq(inner(g3, g3), One)

SameAxes(a, b) ==
  /\ ~VecHasNan(a.gamma1) /\ ~VecHasNan(a.gamma2) /\ ~VecHasNan(a.gamma3)
  /\ a.gamma1 = b.gamma1 /\ a.gamma2 = b.gamma2 /\ a.gamma3 = b.gamma3

\* the matrix rebuilt from the stored angles has the stored axes as columns
GammaAgrees(k) ==
  \E G \in {Gamma(k)} :
    /\ ~VecHasNan(k.gamma1) /\ ~VecHasNan(k.gamma2) /\ ~VecHasNan(k.gamma3)
    /\ Column(G, 1) = k.gamma1 /\ Column(G, 2) = k.gamma2 /\ Column(G, 3) = k.gamma3

\* C4: kent3(A, B) with a zero-length A raises an error and returns no
\* instance, whatever B is.
C4_Kent3RejectsZeroA ==
  (call.op = "kent3" /\ call.vectors[1] = ZeroVec) => inst.raised # ""

\* C5: every instance a constructor returns holds three pairwise orthogonal
\* unit axes, and the matrix Gamma rebuilt from its stored angles has exactly
\* those axes as its columns.
C5_ReturnedFrameIsOrthonormal ==
  (IsCtorCall /\ inst.raised = "") =>
    /\ Orthonormal(inst.k.gamma1, inst.k.gamma2, inst.k.gamma3)
    /\ GammaAgrees(inst.k)

\* C6: for every angle triple and kappa > 0, beta > 0, the instance built by
\* kent from the angles, by kent2 from the axes derived from them, by
\* kent3(gamma1*kappa, gamma2*beta) and by kent4 from the matrix of those axes
\* all hold the same three axes.
C6_ConstructorsAgree ==
  (call.op = "kent" /\ FLt(Zero, call.kappa) /\ FLt(Zero, call.beta)) =>
    \E g \in {CallAxes} :
    \E k2 \in {kent2(g[1], g[2], g[3], call.kappa, call.beta)},
       k3 \in {kent3(VScale(g[1], call.kappa), VScale(g[2], call.beta))},
       k4 \in {kent4(transpose(<<g[1], g[2], g[3]>>), call.kappa, call.beta)} :
      /\ inst.raised = "" /\ k2.raised = "" /\ k3.raised = "" /\ k4.raised = ""
      /\ SameAxes(inst.k, k2.k)
      /\ SameAxes(inst.k, k3.k)
      /\ SameAxes(inst.k, k4.k)
      /\ k3.k.kappa = call.kappa /\ k3.k.beta = call.beta

\* kent called at the pole theta = 0 with phi and psi both off the axes: the
\* stored phi is not the phi given (it is not unique there), the axes agree
C6_Witness ==
  /\ call.op = "kent"
  /\ call.angles[1] = Angle(One, Zero)
  /\ call.angles[2] = Angle(Frac(3, 5), Frac(4, 5))
  /\ call.angles[3] = Angle(Frac(-3, 5), Frac(4, 5))
  /\ call.kappa = Num(2) /\ call.beta = Num(1)
  /\ inst.raised = ""
  /\ inst.k.phi # call.angles[2]


(***************************************************************************)
(* The density.  log_pdf and log_pdf_max are modelled with normalize=False *)
(* (the value f of line 309 and fmax of line 269).                         *)
(***************************************************************************)
\* lines 303-309 and 313, for one point xs
log_pdf(k, xs) ==
  Eval(inner(k.gamma1, xs), LAMBDA g1x :
  Eval(inner(k.gamma2, xs), LAMBDA g2x :
  Eval(inner(k.gamma3, xs), LAMBDA g3x :
    FAdd(FMul(k.kappa, g1x),
         FMul(k.beta, FSub(FMul(g2x, g2x), FMul(g3x, g3x)))))))

\* a slip in line 266: kappa/beta for kappa/(2*beta)
max_x1_no_factor_two(k) ==
  Eval(IF k.beta = Zero THEN One ELSE FDiv(k.kappa, k.beta), LAMBDA x :
    IF FLt(One, x) THEN One ELSE x)

\* lines 263-268 (and 245-250): the first coordinate of the point of maximum
max_x1(k) ==
  Eval(IF k.beta = Zero THEN One ELSE FDiv(k.kappa, FMul(Num(2), k.beta)),
       LAMBDA x : IF FLt(One, x) THEN One ELSE x)

\* lines 259-273
log_pdf_max(k) ==
  Eval(max_x1(k), LAMBDA x :
    FAdd(FMul(k.kappa, x), FMul(k.beta, FSub(One, FMul(x, x)))))

\* lines 245-253: the point of maximum, dot(Gamma, (x1, x2, x3))
max_point(k) ==
  Eval(max_x1(k), LAMBDA x1 :
  Eval(FSqrt(FSub(One, FMul(x1, x1))), LAMBDA x2 :
    MMulVec(Gamma(k), Vec(x1, x2, Zero))))

\* lines 244-254: max() returns the angles <<theta, phi>> of that point
max(k) == gamma1_to_spherical_coordinates(max_point(k))

\* kappa and beta of the instances the density is queried on; for the pairs
\* in MaxPairs the point of maximum has rational coordinates
ShapePairs ==
  {<<Num(k), Num(b)>> :
     <<k, b>> \in {<<0, 0>>, <<2, 0>>, <<2, 1>>, <<3, 1>>, <<1, 1>>,
                   <<6, 5>>, <<8, 5>>, <<0, 3>>, <<2, 3>>}}

\* the frames of the instances the density is queried on
PdfAngles ==
  {Angle(One, Zero), Angle(Zero, One),
   Angle(Frac(3, 5), Frac(4, 5)), Angle(Frac(-4, 5), Frac(-3, 5))}

\* unit vectors with rational coordinates: the points the density is taken at
UnitPoints ==
  {spherical_coordinates_to_gammas(t, p, Angle(One, Zero))[1] :
     t \in Angles, p \in Angles}

NoQuery == [op |-> "none", x |-> ZeroVec, value |-> Zero, angles |-> <<>>]

\* the instances are built by kent; one query is then made on each
InitPdf ==
  /\ \E theta \in PdfAngles, phi \in PdfAngles, psi \in PdfAngles,
        kb \in ShapePairs :
       /\ call = [NoCtorCall EXCEPT !.op = "kent", !.angles = <<theta, phi, psi>>,
                    !.kappa = kb[1], !.beta = kb[2]]
       /\ inst = kent(theta, phi, psi, kb[1], kb[2])
  /\ query = NoQuery

LogPdf(x) ==
  /\ query.op = "none"
  /\ query' = [NoQuery EXCEPT !.op = "log_pdf", !.x = x,
                 !.value = log_pdf(inst.k, x)]
  /\ UNCHANGED outside_pdf

LogPdfMax ==
  /\ query.op = "none"
  /\ query' = [NoQuery EXCEPT !.op = "log_pdf_max", !.value = log_pdf_max(inst.k)]
  /\ UNCHANGED outside_pdf

\* every root max() takes is rational
max_exact(k) ==
  /\ FIsSquare(FSub(One, FMul(max_x1(k), max_x1(k))))
  /\ \E x \in {max_point(k)} :
       /\ FIsSquare(FSub(One, FMul(x[1], x[1])))
       /\ FIsSquare(FAdd(FMul(x[2], x[2]), FMul(x[3], x[3])))

Max ==
  /\ query.op = "none"
  /\ max_exact(inst.k)
  /\ query' = [NoQuery EXCEPT !.op = "max", !.x = max_point(inst.k),
                 !.angles = max(inst.k)]
  /\ UNCHANGED outside_pdf

NextPdf ==
  \/ \E x \in UnitPoints : LogPdf(x)
  \/ LogPdfMax
  \/ Max

(***************************************************************************)
(* Claims about the density.                                               *)
(***************************************************************************)
\* C9: for an orthonormal frame, kappa >= 0, beta >= 0 and a unit vector x,
\* log_pdf(x, normalize=False) does not exceed log_pdf_max(normalize=False),
\* which is kappa*x1 + beta*(1 - x1^2) with x1 = 1 for beta = 0 and
\* x1 = min(kappa/(2*beta), 1) otherwise; and the bound is attained at the
\* point x1*gamma1 + sqrt(1 - x1^2)*gamma2.
C9_Precondition ==
  /\ inst.raised = ""
  /\ Orthonormal(inst.k.gamma1, inst.k.gamma2, inst.k.gamma3)
  /\ FLe(Zero, inst.k.kappa) /\ FLe(Zero, inst.k.beta)

C9_X1 ==
  IF inst.k.beta = Zero THEN One
  ELSE IF FLt(inst.k.kappa, FMul(Num(2), inst.k.beta))
       THEN FDiv(inst.k.kappa, FMul(Num(2), inst.k.beta))
       ELSE One

C9_LogPdfBelowMax ==
  /\ (query.op = "log_pdf" /\ C9_Precondition /\ FEq(inner(query.x, query.x), One)) =>
       FLe(query.value, log_pdf_max(inst.k))
  /\ (query.op = "log_pdf_max" /\ C9_Precondition) =>
       query.value = FAdd(FMul(inst.k.kappa, C9_X1),
                          FMul(inst.k.beta, FSub(One, FMul(C9_X1, C9_X1))))
  /\ (query.op = "max" /\ C9_Precondition) =>
       /\ FEq(inner(query.x, query.x), One)
       /\ query.x = [i \in 1..3 |->
                       FAdd(FMul(C9_X1, inst.k.gamma1[i]),
                            FMul(FSqrt(FSub(One, FMul(C9_X1, C9_X1))),
                                 inst.k.gamma2[i]))]
       /\ log_pdf(inst.k, query.x) = log_pdf_max(inst.k)

\* the maximum is inside the sphere's upper half (kappa < 2*beta), on a frame
\* that is not axis-aligned
C9_Witness ==
  /\ query.op = "max"
  /\ inst.k.kappa = Num(6) /\ inst.k.beta = Num(5)
  /\ inst.k.theta = Angle(Frac(3, 5), Frac(4, 5))
  /\ query.x # inst.k.gamma1
  /\ log_pdf(inst.k, query.x) = Frac(34, 5)

(***************************************************************************)
(* The normalizer.  The value of a series term comes from scipy and numpy, *)
(* which are not part of the source: a term is an entry of a table, a      *)
(* finite number of units or inf, together with what its evaluation        *)
(* signals (nothing, a numpy RuntimeWarning, or a Python exception).       *)
(***************************************************************************)
Fin(n) == <<"fin", n>>
inf == <<"inf", 0>>

\* float addition on these values
SAdd(x, y) == IF x = inf \/ y = inf THEN inf ELSE Fin(x[2] + y[2])

\* line 220: 1E-12 and 5
SeriesTolDigits == 12
MinTerms == 5

\* a slip in line 220: the magnitude test always succeeds
SmallTermAlways(a, result) == TRUE

\* abs(a) < abs(result)*1E-12
SmallTerm(a, result) ==
  IF a = inf THEN FALSE
  ELSE IF result = inf THEN TRUE
  ELSE BelowPow10(a[2], result[2], SeriesTolDigits)

T(n) == [a |-> Fin(n), sig |-> ""]
Overflows == [a |-> inf, sig |-> "RuntimeWarning"]
ZeroDivision == [a |-> Fin(0), sig |-> "ZeroDivisionError"]

\* (kappa, beta) of the instances; 9 stands for a kappa so large that the
\* Bessel function overflows, and 0.0 ** (-0.5) is a ZeroDivisionError
NormPairs ==
  {<<2, 1>>, <<2, 0>>, <<1, 3>>, <<3, 1>>, <<4, 2>>, <<9, 4>>, <<9, 9>>, <<9, 0>>, <<0, 0>>}

\* lines 200-205 (beta = 0) and 209-216: the terms for j = 0, 1, ...
SeriesTerms(k, b) ==
  CASE <<k, b>> = <<2, 1>> -> <<T(5), T(3), T(1)>>
    [] <<k, b>> = <<2, 0>> -> <<T(4)>>
    [] <<k, b>> = <<1, 3>> -> <<T(2), T(6), T(4), T(1)>>
    [] <<k, b>> = <<3, 1>> -> <<T(8), T(0), T(2), T(1)>>
    [] <<k, b>> = <<4, 2>> -> <<T(9), T(8), T(7), T(6), T(5), T(4), T(3), T(2)>>
    [] <<k, b>> = <<9, 4>> -> <<Overflows, Overflows, T(7)>>
    [] <<k, b>> = <<9, 9>> -> <<Overflows, Overflows, Overflows, T(8), T(3)>>
    [] <<k, b>> = <<9, 0>> -> <<Overflows>>
    [] <<k, b>> = <<0, 0>> -> <<ZeroDivision>>

\* the terms underflow to 0.0 in the end
series_term(k, b, j) ==
  IF j + 1 <= Len(SeriesTerms(k, b)) THEN SeriesTerms(k, b)[j + 1] ELSE T(0)

\* what evaluating a term does under the warnings filter in force: a numpy
\* warning is an exception under simplefilter('error') and a printed line
\* otherwise; a Python exception is raised under both
term_raises(t, filter) ==
  IF t.sig = "RuntimeWarning" THEN (IF filter = "error" THEN t.sig ELSE "")
  ELSE t.sig

\* lines 207-221: the while loop, entered with result and j
RECURSIVE series_loop(_, _, _, _, _)
series_loop(k, b, j, result, filter) ==
  Eval(series_term(k, b, j), LAMBDA t :
  Eval(SAdd(result, t.a), LAMBDA sum :
    IF term_raises(t, filter) # ""
    THEN [result |-> result, j |-> j, raised |-> term_raises(t, filter)]
    ELSE IF SmallTerm(t.a, sum) /\ j + 1 > MinTerms
         THEN [result |-> sum, j |-> j + 1, raised |-> ""]
         ELSE series_loop(k, b, j + 1, sum, filter)))

\* lines 195-221: the series for a pair that is not in the cache
series(k, b, filter) ==
  IF b = 0
  THEN Eval(series_term(k, b, 0), LAMBDA t :
         [result |-> t.a, j |-> 0, raised |-> term_raises(t, filter)])
  ELSE series_loop(k, b, 0, Fin(0), filter)

\* 2*pi*result
TwoPi(result) == <<"2*pi*", result>>

\* a slip in line 194: the membership test never succeeds
cache_has_never(c, k, b) == FALSE

\* line 194
cache_has(c, k, b) == <<k, b>> \in DOMAIN c

\* line 223
cache_store(c, k, b, v) ==
  [p \in DOMAIN c \cup {<<k, b>>} |-> IF p = <<k, b>> THEN v ELSE c[p]]

\* lines 175-227; stored tells whether line 223 ran
normalize(c, k, b, return_num_iterations, filter) ==
  IF cache_has(c, k, b)
  THEN IF return_num_iterations
       THEN [cache |-> c, stored |-> FALSE, raised |-> "UnboundLocalError",
             ret |-> None, j |-> None]
       ELSE [cache |-> c, stored |-> FALSE, raised |-> "",
             ret |-> c[<<k, b>>], j |-> None]
  ELSE Eval(series(k, b, filter), LAMBDA s :
         IF s.raised # ""
         THEN [cache |-> c, stored |-> FALSE, raised |-> s.raised,
               ret |-> None, j |-> None]
         ELSE [cache |-> cache_store(c, k, b, TwoPi(s.result)), stored |-> TRUE,
               raised |-> "", ret |-> TwoPi(s.result),
               j |-> IF return_num_iterations THEN <<s.j>> ELSE None])

NoStored == TwoPi(Fin(0))
LogOf(v) == [kind |-> "log", of |-> v, kappa |-> 0, beta |-> 0]
LogInf == [kind |-> "inf", of |-> NoStored, kappa |-> 0, beta |-> 0]
Asymptotic(k, b) == [kind |-> "asymptotic", of |-> NoStored, kappa |-> k, beta |-> b]
NoLog == [kind |-> "none", of |-> NoStored, kappa |-> 0, beta |-> 0]

\* numpy log of a stored value: log(inf) is inf, log(0.0) is a RuntimeWarning
log(v) ==
  IF v[2] = inf THEN [ret |-> LogInf, raised |-> ""]
  ELSE IF v[2] = Fin(0) THEN [ret |-> NoLog, raised |-> "RuntimeWarning"]
  ELSE [ret |-> LogOf(v), raised |-> ""]

\* line 240, inside the except clause and the 'error' filter: the logarithm
\* of a number that is not positive is a RuntimeWarning, hence raised
asymptotic(k, b) ==
  IF (k - b) * (k + b) <= 0
  THEN [ret |-> NoLog, raised |-> "RuntimeWarning"]
  ELSE [ret |-> Asymptotic(k, b), raised |-> ""]

\* a slip in line 237: the except clause catches everything
log_normalize_catches_all(e) == TRUE

\* line 237
log_normalize_catches(e) == e \in {"OverflowError", "RuntimeWarning"}

\* lines 229-241
log_normalize(c, k, b) ==
  Eval(normalize(c, k, b, FALSE, "error"), LAMBDA n :
  Eval(IF n.raised = "" THEN log(n.ret) ELSE [ret |-> NoLog, raised |-> n.raised],
       LAMBDA l :
  Eval(IF l.raised = "" THEN l
       ELSE IF log_normalize_catches(l.raised) THEN asymptotic(k, b)
       ELSE l, LAMBDA r :
    [cache |-> n.cache, stored |-> n.stored, raised |-> r.raised, ret |-> r.ret])))

\* the instances: two for every pair
NormInstances == {[id |-> i, kappa |-> p[1], beta |-> p[2]] : i \in 1..2, p \in NormPairs}

NoNormCall ==
  [op |-> "none", self |-> 0, kappa |-> 0, beta |-> 0, return_num_iterations |-> FALSE,
   hit |-> FALSE, stored |-> FALSE, raised |-> "", value |-> NoStored, j |-> None,
   log |-> NoLog, pre_cache |-> <<>>]

IdleNorm ==
  /\ cache = <<>>
  /\ computed = [p \in NormPairs |-> 0]
  /\ ncall = NoNormCall

Normalize(self, return_num_iterations) ==
  \E k \in {self.kappa}, b \in {self.beta},
     n \in {normalize(cache, self.kappa, self.beta, return_num_iterations, "default")} :
      /\ cache' = n.cache
      /\ computed' = IF n.stored THEN [computed EXCEPT ![<<k, b>>] = @ + 1] ELSE computed
      /\ ncall' = [NoNormCall EXCEPT !.op = "normalize", !.self = self.id,
                     !.kappa = k, !.beta = b,
                     !.return_num_iterations = return_num_iterations,
                     !.hit = cache_has(cache, k, b), !.stored = n.stored,
                     !.raised = n.raised,
                     !.value = IF n.raised = "" THEN n.ret ELSE NoStored,
                     !.j = n.j, !.pre_cache = cache]
      /\ UNCHANGED outside_norm

LogNormalize(self) ==
  \E k \in {self.kappa}, b \in {self.beta},
     n \in {log_normalize(cache, self.kappa, self.beta)} :
      /\ cache' = n.cache
      /\ computed' = IF n.stored THEN [computed EXCEPT ![<<k, b>>] = @ + 1] ELSE computed
      /\ ncall' = [NoNormCall EXCEPT !.op = "log_normalize", !.self = self.id,
                     !.kappa = k, !.beta = b,
                     !.hit = cache_has(cache, k, b), !.stored = n.stored,
                     !.raised = n.raised, !.log = n.ret, !.pre_cache = cache]
      /\ UNCHANGED outside_norm

NextNorm ==
  \/ \E self \in NormInstances, rni \in BOOLEAN : Normalize(self, rni)
  \/ \E self \in NormInstances : LogNormalize(self)

(***************************************************************************)
(* Claims about the normalizer.                                            *)
(***************************************************************************)
\* the series of the pair of the last call, evaluated as log_normalize does
SeriesOfCall == series(ncall.kappa, ncall.beta, "error")

\* C7: in every state of the shared memo cache, log_normalize returns the
\* logarithm of the series result when the series evaluates to a finite value
\* without a numerical warning, returns the asymptotic value
\* log(2*pi) + kappa - 0.5*log((kappa-beta)*(kappa+beta)) when the series
\* evaluation overflows or raises a numerical warning, and in neither case
\* surfaces an error to the caller.
C7_LogNormalizeFallback ==
  ncall.op = "log_normalize" =>
    /\ (SeriesOfCall.raised = "" /\ SeriesOfCall.result # inf) =>
         /\ ncall.raised = ""
         /\ ncall.log = LogOf(TwoPi(SeriesOfCall.result))
    /\ (SeriesOfCall.raised \in {"OverflowError", "RuntimeWarning"}) =>
         /\ ncall.raised = ""
         /\ ncall.log = Asymptotic(ncall.kappa, ncall.beta)

\* the part of C7 that fails with kappa > beta as well: after a direct
\* normalize() call stored inf, log_normalize returns log(inf)
C7_NoInfFromCache ==
  (ncall.op = "log_normalize" /\ ncall.kappa > ncall.beta) => ncall.log # LogInf

\* the parts of C8 about the cache alone
C8_CacheOnlyGrows ==
  /\ [](\A p \in NormPairs : computed[p] <= 1)
  /\ [][\A p \in DOMAIN cache : p \in DOMAIN cache' /\ cache'[p] = cache[p]]_vars

\* C8: normalize is memoized process-wide by the exact pair (kappa, beta):
\* the constant of a pair is computed at most once, a stored entry is never
\* modified or removed, the cache only grows, and every later call with the
\* same pair, on the same or another instance, returns the stored value.
C8_NormalizeMemoized ==
  /\ [](\A p \in NormPairs : computed[p] <= 1)
  /\ [][/\ \A p \in DOMAIN cache : p \in DOMAIN cache' /\ cache'[p] = cache[p]
        /\ (ncall'.op = "normalize" /\ <<ncall'.kappa, ncall'.beta>> \in DOMAIN cache) =>
             /\ ncall'.raised = ""
             /\ ncall'.value = cache[<<ncall'.kappa, ncall'.beta>>]]_vars

\* the same with calls that pass return_num_iterations left out
C8_DefaultCallsMemoized ==
  [][(/\ ncall'.op = "normalize" /\ ~ncall'.return_num_iterations
      /\ <<ncall'.kappa, ncall'.beta>> \in DOMAIN cache) =>
       /\ ncall'.raised = ""
       /\ ncall'.value = cache[<<ncall'.kappa, ncall'.beta>>]]_vars

(***************************************************************************)
(* Maximum likelihood estimation.  scipy's minimize is not part of the     *)
(* source: its result (x, success, message) and the iterates it passes to  *)
(* the callback are inputs of the call.                                    *)
(***************************************************************************)
MaxMleCalls == 2

\* line 95: minimum_value_for_kappa = 1E-6
min_kappa == Frac(1, 1000000)

\* the solver's vector x: three angles and the two fudge values
Iterate(theta, phi, psi, fudge_kappa, fudge_beta) ==
  [theta |-> theta, phi |-> phi, psi |-> psi,
   fudge_kappa |-> fudge_kappa, fudge_beta |-> fudge_beta]

\* lines 496-498
generate_k(x) ==
  kent(x.theta, x.phi, x.psi, FAdd(min_kappa, FAbs(x.fudge_kappa)), FAbs(x.fudge_beta))

\* the iterates: one that meets the constraints, one with negative fudge
\* values, one with 2*|fudge_beta| > |fudge_kappa|
FeasibleIterate ==
  Iterate(Angle(One, Zero), Angle(Zero, One), Angle(Frac(3, 5), Frac(4, 5)),
          Num(2), Num(1))
NegativeIterate ==
  Iterate(Angle(Frac(3, 5), Frac(4, 5)), Angle(One, Zero), Angle(Zero, One),
          Num(-3), Num(-1))
InfeasibleIterate ==
  Iterate(Angle(Zero, One), Angle(Frac(3, 5), Frac(4, 5)), Angle(One, Zero),
          Num(1), Num(3))
Iterates == {FeasibleIterate, NegativeIterate, InfeasibleIterate}

\* lines 522-527: the three inequality constraints handed to the solver
cons(x) ==
  /\ FLe(Zero, FSub(FAbs(x.fudge_kappa), FMul(Num(2), FAbs(x.fudge_beta))))
  /\ FLe(Zero, x.fudge_kappa)
  /\ FLe(Zero, x.fudge_beta)

\* generate_k(*x) for every iterate
generate_k_of == [x \in Iterates |-> generate_k(x)]

\* if verbose: bool is a subclass of int, False is 0 and True is 1
truthy(verbose) == verbose # 0

\* lines 506-513: the callback appends to intermediate_values and prints a
\* line when verbose is true; the value of -L is left symbolic
callback(io, x, verbose) ==
  Eval(<<x.theta, x.phi, x.psi, FAdd(min_kappa, FAbs(x.fudge_kappa)),
         FAbs(x.fudge_beta), <<"-L", x>>>>, LAMBDA entry :
    [imv |-> Append(io.imv, entry),
     stdout |-> IF truthy(verbose)
                THEN Append(io.stdout, <<Len(io.imv) + 1, entry>>)
                ELSE io.stdout])

\* lines 528-534: minimize calls the callback once per iteration
RECURSIVE minimize_callbacks(_, _, _)
minimize_callbacks(io, path, verbose) ==
  IF path = <<>> THEN io
  ELSE minimize_callbacks(callback(io, Head(path), verbose), Tail(path), verbose)

\* hasattr(warning, "write"): of the arguments below only the file object
hasattr_write(warning) == warning = "<file>"

\* a slip in lines 538-543: the message is routed whatever success says
mle_warnings_unconditional(all_values, warning) ==
  [warned |-> IF warning = "warn" THEN <<all_values.message>> ELSE <<>>,
   written |-> IF hasattr_write(warning)
               THEN <<<<"Warning: ", all_values.message, "\n">>>> ELSE <<>>]

\* lines 538-543
mle_warnings(all_values, warning) ==
  IF ~all_values.success
  THEN [warned |-> IF warning = "warn" THEN <<all_values.message>> ELSE <<>>,
        written |-> IF hasattr_write(warning)
                    THEN <<<<"Warning: ", all_values.message, "\n">>>> ELSE <<>>]
  ELSE [warned |-> <<>>, written |-> <<>>]

\* lines 466-550; all_values is what minimize returned, path the iterates
\* it passed to the callback
kent_mle(all_values, path, verbose, return_intermediate_values, warning) ==
  Eval(minimize_callbacks(
         [imv |-> <<>>, stdout |-> IF truthy(verbose) THEN <<<<0, <<>>>>>> ELSE <<>>],
         path, verbose), LAMBDA io :
  Eval(mle_warnings(all_values, warning), LAMBDA w :
    [k |-> generate_k_of[all_values.x],
     intermediate_values |-> IF return_intermediate_values THEN <<io.imv>> ELSE None,
     stdout |-> io.stdout, warned |-> w.warned, written |-> w.written]))

\* the iterates the solver passes to the callback, in order
Paths ==
  {<<>>, <<FeasibleIterate, NegativeIterate>>,
   <<NegativeIterate, InfeasibleIterate, FeasibleIterate>>}

\* what SLSQP reports: status 0 or a failure with its message
SolverReports ==
  {[success |-> TRUE, message |-> "Optimization terminated successfully."],
   [success |-> FALSE, message |-> "Iteration limit exceeded"],
   [success |-> FALSE, message |-> "Positive directional derivative for linesearch"]}

\* the values of the argument warning: "<file>" is an object with a write method
WarningArgs == {"warn", "none", "<file>"}

NoMle ==
  [op |-> "none", verbose |-> 0, return_intermediate_values |-> FALSE, warning |-> "none",
   success |-> TRUE, message |-> "", x |-> CHOOSE x \in Iterates : TRUE, path |-> <<>>,
   raised |-> "", ret |-> Raised(""), intermediate_values |-> None, stdout |-> <<>>]

IdleMle ==
  /\ mle = NoMle
  /\ warned = <<>>
  /\ sink = <<>>
  /\ mle_calls = 0

\* a solver that reports success stopped at a point meeting the constraints;
\* one that reports a failure stopped anywhere
KentMle(report, x, path, verbose, return_intermediate_values, warning) ==
  /\ mle_calls < MaxMleCalls
  /\ report.success => cons(x)
  /\ \E r \in {kent_mle([x |-> x, success |-> report.success, message |-> report.message],
                        path, verbose, return_intermediate_values, warning)} :
       /\ mle' = [NoMle EXCEPT !.op = "kent_mle", !.verbose = verbose,
                    !.return_intermediate_values = return_intermediate_values,
                    !.warning = warning, !.success = report.success,
                    !.message = report.message, !.x = x, !.path = path,
                    !.ret = r.k, !.intermediate_values = r.intermediate_values,
                    !.stdout = r.stdout]
       /\ warned' = warned \o r.warned
       /\ sink' = sink \o r.written
  /\ mle_calls' = mle_calls + 1
  /\ UNCHANGED outside_mle

\* the values of the argument verbose: False, True and the integer 2
Verbosities == {0, 1, 2}

NextMle ==
  \E report \in SolverReports, x \in Iterates, path \in Paths, verbose \in Verbosities,
     riv \in BOOLEAN, warning \in WarningArgs :
    KentMle(report, x, path, verbose, riv, warning)

(***************************************************************************)
(* Claims about kent_mle.                                                  *)
(***************************************************************************)
\* C10: when the solver reports non-convergence kent_mle does not fail: it
\* returns the distribution built from the solver's final iterate and emits
\* the solver's message to exactly the channel the argument warning selects:
\* through warnings.warn if and only if warning == "warn", written to the
\* sink if and only if warning has a write method, nowhere for any other
\* value.  When the solver reports success nothing is emitted on any channel.
C10_FinalIterate ==
  [x \in Iterates |->
     kent(x.theta, x.phi, x.psi, FAdd(Frac(1, 1000000), FAbs(x.fudge_kappa)),
          FAbs(x.fudge_beta))]

C10_Step ==
  mle_calls' = mle_calls + 1 =>
    /\ mle'.raised = "" /\ mle'.ret.raised = ""
    /\ mle'.ret.k = C10_FinalIterate[mle'.x].k
    /\ warned' = IF ~mle'.success /\ mle'.warning = "warn"
                 THEN Append(warned, mle'.message) ELSE warned
    /\ sink' = IF ~mle'.success /\ mle'.warning = "<file>"
               THEN Append(sink, <<"Warning: ", mle'.message, "\n">>) ELSE sink

C10_WarningRouting == [][C10_Step]_vars

\* two calls that did not converge, one routed to each channel, and the
\* second returned the distribution of an iterate with negative fudge values
C10_Witness ==
  /\ mle.op = "kent_mle" /\ ~mle.success /\ mle.warning = "<file>"
  /\ warned = <<"Iteration limit exceeded">>
  /\ sink = <<<<"Warning: ", "Positive directional derivative for linesearch", "\n">>>>
  /\ mle.x.fudge_kappa = Num(-3)
  /\ mle.ret.k.kappa = Frac(3000001, 1000000) /\ mle.ret.k.beta = One

\* the iteration numbers of the progress lines of the last call (the header
\* that __kent_mle_output1 prints is line 0)
ProgressLines ==
  {mle.stdout[i][1] : i \in {n \in 1..Len(mle.stdout) : mle.stdout[n][1] >= 1}}

\* C11: with verbose an integer N > 1 a progress line is emitted only on
\* every Nth optimizer iteration; with verbose=True on every iteration; with
\* verbose false no progress line is emitted.
C11_VerboseThrottles ==
  mle.op = "kent_mle" =>
    /\ mle.verbose = 0 => ProgressLines = {}
    /\ mle.verbose = 1 => ProgressLines = 1..Len(mle.path)
    /\ mle.verbose > 1 =>
         \A a, b \in ProgressLines : (a - b) % mle.verbose = 0

\* the (kappa, beta) of the trace entries of the last call
TraceShapes ==
  IF mle.intermediate_values = None THEN {}
  ELSE {<<e[4], e[5]>> : e \in {mle.intermediate_values[1][i] :
                                  i \in 1..Len(mle.intermediate_values[1])}}

\* C12: every distribution kent_mle evaluates, records in its trace or
\* returns has kappa >= minimum_value_for_kappa (1E-6) and beta >= 0, for
\* every value of the solver's free variables; and the distribution it
\* returns satisfies 2*beta <= kappa, whatever iterate the solver stops at,
\* converged or not.
C12_ShapeDomain ==
  mle.op = "kent_mle" =>
    /\ \A i \in 1..Len(mle.path) :
         /\ FLe(Frac(1, 1000000), generate_k_of[mle.path[i]].k.kappa)
         /\ FLe(Zero, generate_k_of[mle.path[i]].k.beta)
    /\ \A kb \in TraceShapes : FLe(Frac(1, 1000000), kb[1]) /\ FLe(Zero, kb[2])
    /\ FLe(Frac(1, 1000000), mle.ret.k.kappa)
    /\ FLe(Zero, mle.ret.k.beta)
    /\ FLe(FMul(Num(2), mle.ret.k.beta), mle.ret.k.kappa)

\* the part of C12 about the floor of kappa and the sign of beta
C12_FloorAndSign ==
  mle.op = "kent_mle" =>
    /\ \A i \in 1..Len(mle.path) :
         /\ FLe(Frac(1, 1000000), generate_k_of[mle.path[i]].k.kappa)
         /\ FLe(Zero, generate_k_of[mle.path[i]].k.beta)
    /\ \A kb \in TraceShapes : FLe(Frac(1, 1000000), kb[1]) /\ FLe(Zero, kb[2])
    /\ FLe(Frac(1, 1000000), mle.ret.k.kappa)
    /\ FLe(Zero, mle.ret.k.beta)

\* C13: for every percentile in [0, 100) and every n_samples >= 1, level
\* returns cache[i] + (loc-i)*(cache[i+1]-cache[i]) with
\* loc = (size-1)*percentile/100 and i = floor(loc), both indices i and i+1
\* lie inside the sorted cache, and the result lies between the smallest and
\* the largest cached value.  (Values are in hundredths, indices from 1.)
C13_LevelInterpolates ==
  (/\ last.op = "level"
   /\ 0 <= last.percentile /\ last.percentile < 100
   /\ last.n_samples[1] >= 1) =>
    LET size == Len(level_log_pdf)
        i == ((size - 1) * last.percentile) \div 100
    IN  /\ i >= 0 /\ i + 1 <= size - 1
        /\ last.level_ret.kind = "value"
        /\ last.level_ret.v =
             100 * level_log_pdf[i + 1]
             + ((size - 1) * last.percentile - 100 * i)
               * (level_log_pdf[i + 2] - level_log_pdf[i + 1])
        /\ 100 * level_log_pdf[1] <= last.level_ret.v
        /\ last.level_ret.v <= 100 * level_log_pdf[size]

\* the same for n_samples >= 2
C13_LevelInterpolatesFromTwo ==
  (/\ last.op = "level"
   /\ 0 <= last.percentile /\ last.percentile < 100
   /\ last.n_samples[1] >= 2) =>
    LET size == Len(level_log_pdf)
        i == ((size - 1) * last.percentile) \div 100
    IN  /\ i >= 0 /\ i + 1 <= size - 1
        /\ last.level_ret.kind = "value"
        /\ 100 * level_log_pdf[1] <= last.level_ret.v
        /\ last.level_ret.v <= 100 * level_log_pdf[size]

\* the sum of the terms 0 .. n-1 of a pair, as floats add
RECURSIVE C14_PartialSum(_, _, _)
C14_PartialSum(k, b, n) ==
  IF n = 0 THEN Fin(0)
  ELSE LET rest == C14_PartialSum(k, b, n - 1)
           a == series_term(k, b, n - 1).a
       IN  IF rest = inf \/ a = inf THEN inf ELSE Fin(rest[2] + a[2])

\* term j is below 1E-12 times the running sum that includes it
C14_MeetsTest(k, b, j) ==
  LET a == series_term(k, b, j).a
      sum == C14_PartialSum(k, b, j + 1)
  IN  /\ a # inf
      /\ \/ sum = inf
         \/ a[2] = 0 /\ sum[2] > 0
         \/ a[2] > 0 /\ BelowPow10(a[2], sum[2], 12)

\* the index of the first term with j >= 5 that meets the test
C14_LastTerm(k, b) ==
  CHOOSE j \in 5..20 :
    /\ C14_MeetsTest(k, b, j)
    /\ \A i \in 5..(j - 1) : ~C14_MeetsTest(k, b, i)

\* C14: for beta > 0 and a pair that is not memoized, normalize sums the
\* terms j = 0, 1, 2, ... in order and stops immediately after the first term
\* with index j >= 5 whose magnitude is below 1E-12 times the running sum that
\* includes it; it never stops before 6 terms are summed, even when an earlier
\* term meets the test, and it stores 2*pi times the sum of the terms summed.
C14_SeriesStops ==
  (ncall.op = "normalize" /\ ncall.beta > 0 /\ ~ncall.hit) =>
    /\ ncall.raised = "" /\ ncall.stored
    /\ cache[<<ncall.kappa, ncall.beta>>] =
         <<"2*pi*", C14_PartialSum(ncall.kappa, ncall.beta,
                                    C14_LastTerm(ncall.kappa, ncall.beta) + 1)>>
    /\ ncall.return_num_iterations =>
         /\ ncall.j = <<C14_LastTerm(ncall.kappa, ncall.beta) + 1>>
         /\ ncall.j[1] >= 6

\* a first call with return_num_iterations for a pair whose second term is
\* 0.0 and meets the test early, and for one with more than six terms
C14_Witness ==
  /\ ncall.op = "normalize" /\ ~ncall.hit /\ ncall.return_num_iterations
  /\ <<3, 1>> \in DOMAIN cache /\ cache[<<3, 1>>] = TwoPi(Fin(11))
  /\ ncall.kappa = 4 /\ ncall.beta = 2
  /\ ncall.j = <<9>> /\ ncall.value = TwoPi(Fin(44))

\* C15: normalize(return_num_iterations=True) returns the pair (normalizing
\* constant, number of series terms summed) on every call without raising,
\* in every state of the memo cache: on the first call for a pair and on any
\* later call for a pair that is already memoized, by this or by another
\* instance.  (Stated for kappa > 0; with kappa = 0 the first term is a
\* ZeroDivisionError already.)
C15_ReturnsNumIterations ==
  (ncall.op = "normalize" /\ ncall.return_num_iterations /\ ncall.kappa > 0) =>
    /\ ncall.raised = ""
    /\ ncall.value = cache[<<ncall.kappa, ncall.beta>>]
    /\ ncall.j # None

\* the part of C15 about the first call for a pair
C15_FirstCallReturnsNumIterations ==
  (/\ ncall.op = "normalize" /\ ncall.return_num_iterations /\ ncall.kappa > 0
   /\ ~ncall.hit) =>
    /\ ncall.raised = ""
    /\ ncall.value = cache[<<ncall.kappa, ncall.beta>>]
    /\ ncall.j # None

(***************************************************************************)
(* The specifications: each part runs with the other parts' variables at   *)
(* rest.                                                                   *)
(***************************************************************************)
InitSamplerSpec == InitSampler /\ IdleFrame /\ query = NoQuery /\ IdleNorm /\ IdleMle
SpecSampler == InitSamplerSpec /\ [][NextSampler]_vars

InitFrameSpec == InitSampler /\ InitFrame /\ query = NoQuery /\ IdleNorm /\ IdleMle
SpecFrame == InitFrameSpec /\ [][NextFrame]_vars

InitPdfSpec == InitSampler /\ InitPdf /\ IdleNorm /\ IdleMle
SpecPdf == InitPdfSpec /\ [][NextPdf]_vars

InitNormSpec == InitSampler /\ IdleFrame /\ query = NoQuery /\ IdleNorm /\ IdleMle
SpecNorm == InitNormSpec /\ [][NextNorm]_vars

InitMleSpec == InitSampler /\ IdleFrame /\ query = NoQuery /\ IdleNorm /\ IdleMle
SpecMle == InitMleSpec /\ [][NextMle]_vars

====
